---- MODULE Spec2Model ----
(***************************************************************************)
(* Order placement, stock reservation and cancellation of the ElectroBenin *)
(* backend (controllers/orderController.js, models/Order.js, the Product   *)
(* model, controllers/productController.js), and the login of              *)
(* models/User.js.                                                         *)
(*                                                                         *)
(* Every HTTP request is an independent task of the Node event loop: it    *)
(* runs without interruption between two awaits and may interleave with    *)
(* any other request at an await.  Each action below is the segment of a   *)
(* handler that ends with one database operation (the awaited call),       *)
(* together with the synchronous code that follows it up to the next       *)
(* database operation.                                                     *)
(*                                                                         *)
(* A Mongoose document is a private copy of the stored document, taken by  *)
(* findById.  save() validates the copy, then writes the modified paths    *)
(* with their absolute values ($set) and appends pushed array elements     *)
(* ($push); it does not compare the stored document with the copy, and it  *)
(* fails when the stored document is gone.                                 *)
(***************************************************************************)
EXTENDS Integers, Sequences, FiniteSets, TLC

\* ------------------------------------------------------------------ bounds
NumProducts == 1      \* products in the catalog at start, ids 1..NumProducts
MaxQuantity == 2      \* largest quantity of a line item in a request
MaxString == 1        \* largest quantity a request writes as a string
MaxStringLength == 2  \* longest string a request writes for a quantity
MaxItems == 2         \* longest item list of a createOrder request
InitialStock == 2     \* stock of every product at start
MaxStock == 1         \* largest stock an admin sets
MaxIncrement == 3     \* largest amount an admin's update takes from a stock
MaxRequests == 3      \* requests served in one behaviour, the admin's among them
MaxInFlight == 2      \* requests served at the same time
MaxEdits == 1         \* admin operations on the catalog in one behaviour
MaxEvents == 1        \* admin operations, steps of the clock and requests that
                      \*     write a quantity as a string, in one behaviour
MaxDay == 2           \* server days covered by one behaviour
InitialPrice == 12    \* price of every product at start, in thousandths
HalfPrice == 145      \* an admin sets a price of HalfPrice * k thousandths,
MaxPrice == 1         \*     k <= MaxPrice
InitialMinStock == 1  \* minStock of every product at start
MaxViews == 1         \* views of one product in one behaviour
MaxClock == 4         \* hours covered by one behaviour of the login requests

\* Product ids: the first NumProducts are stored at start, the last one is
\* the id of the product the next createProduct call stores.  An id that
\* names no stored product passes isMongoId all the same.
Products == 1..(NumProducts + 1)
Tasks == 1..MaxInFlight

\* Number.prototype.toString(), as a sequence of characters.
DigitChar(d) == <<"0", "1", "2", "3", "4", "5", "6", "7", "8", "9">>[d + 1]
RECURSIVE NumberToString(_)
NumberToString(n) ==
    IF n < 10 THEN <<DigitChar(n)>>
    ELSE Append(NumberToString(n \div 10), DigitChar(n % 10))
Digits == {DigitChar(d) : d \in 0..9}
CharDigit(c) == CHOOSE d \in 0..9 : DigitChar(d) = c
\* The number a string of decimal digits writes (0 for the empty string).
RECURSIVE StringToNumber(_)
StringToNumber(s) ==
    IF s = <<>> THEN 0
    ELSE 10 * StringToNumber(SubSeq(s, 1, Len(s) - 1)) + CharDigit(s[Len(s)])
\* A string that writes an integer in decimal digits after an optional sign,
\* leading zeros allowed: the notation isInt accepts, and one that the
\* conversion of a string to a Number accepts.
Signed(s) == s # <<>> /\ s[1] \in {"+", "-"}
Unsigned(s) == IF Signed(s) THEN Tail(s) ELSE s
IntegerNotation(s) ==
    /\ Unsigned(s) # <<>>
    /\ \A i \in 1..Len(Unsigned(s)) : Unsigned(s)[i] \in Digits
\* NaN, no Number: a value that no string of these behaviours writes.
NaN == -(2^30)
\* The Number a string that is not empty is converted to by an arithmetic
\* operator, a comparison or the cast of a schema path of type Number.
ToNumber(s) ==
    IF ~IntegerNotation(s) THEN NaN
    ELSE IF s[1] = "-" THEN -StringToNumber(Unsigned(s))
    ELSE StringToNumber(Unsigned(s))
\* isInt({ min: 1 }) on a string: the notation, and the number it writes
\* at least 1.
isInt(s) == IntegerNotation(s) /\ ToNumber(s) >= 1

RECURSIVE SeqsUpTo(_, _)
SeqsUpTo(S, n) ==
    IF n = 0 THEN {<<>>}
    ELSE LET shorter == SeqsUpTo(S, n - 1)
         IN  shorter \cup {Append(s, x) : s \in {t \in shorter : Len(t) = n - 1}, x \in S}
\* The strings a request writes for a quantity: those that pass isInt,
\* within the bounds.
QuantityStrings ==
    {s \in SeqsUpTo({"+", "-"} \cup {DigitChar(d) : d \in 0..MaxString}, MaxStringLength) :
        isInt(s) /\ ToNumber(s) <= MaxString}

\* createOrderValidation, items.*.quantity: isInt({ min: 1 }) tests the
\* notation of the value and leaves the value as it was sent, a JSON number
\* or a JSON string.  `string` is the string as sent (<<>> for a JSON
\* number) and `quantity` the Number the value stands for.
Item ==
    [product : Products, quantity : 1..MaxQuantity, string : {<<>>}]
        \cup {[product |-> p, quantity |-> ToNumber(s), string |-> s] :
                  p \in Products, s \in QuantityStrings}
\* createOrderValidation: items is an array of at least one entry, and
\* every entry's quantity is tested by itself: one list may hold numbers
\* and strings.
ItemLists == SeqsUpTo(Item, MaxItems) \ {<<>>}

VARIABLES
    products,     \* Catalog Store: product id -> [exists, stock, sales, price, minStock, tag, views]
    orders,       \* Order Store: sequence of order documents, id = position
    now,          \* the server's clock: [day, lastMs], lastMs at 23:59:59.999
    reqs,         \* task slot -> the request it serves (position and locals)
    served,       \* requests accepted so far, admin operations among them
    edits,        \* admin operations on the catalog accepted so far
    strings,      \* requests accepted so far that write a quantity as a string
    admin,        \* the admin operation on the catalog that is running
    nextId,       \* the id the next stored product gets
    \* history variables, read by the properties only
    stock0,       \* product id -> stock at start
    sold,         \* product id -> total quantity taken by decreaseStock calls that succeeded
    touched,      \* product id -> an admin operation or a restore has written its stock
    credits,      \* order id -> (item position -> number of restores applied)
    cancelCalls,  \* order id -> cancelOrder calls made on it
    last,         \* the response sent by the last step, if it sent one
    \* the account of one user and the requests on it
    account,      \* User Store: [loginAttempts, lockUntil, lastLogin, isActive] (0 is no date)
    clock,        \* Date.now(), in hours
    logins,       \* task slot -> the login or deleteAccount request it serves
    failures,     \* history: consecutive failed password attempts, counted
                  \* since the last success or the last attempt that found a lock set
    loginLast     \* the response sent by the last step on the account, if it sent one

authVars == <<account, clock, logins, failures, loginLast>>
adminVars == <<admin, nextId>>
storeVars == <<products, orders, now, reqs, served, edits, strings, admin, nextId,
               stock0, sold, touched, credits, cancelCalls, last>>
vars == <<products, orders, now, reqs, served, edits, strings, admin, nextId,
          stock0, sold, touched, credits, cancelCalls, last,
          account, clock, logins, failures, loginLast>>

\* ------------------------------------------------------------- pure parts
StockOf == [p \in Products |-> products[p].stock]
SalesOf == [p \in Products |-> products[p].sales]
ZeroStock == [p \in Products |-> 0]

\* Product schema, stock: { type: Number, min: 0 }.
StockValidator(v) == v >= 0
\* Product schema, price: { type: Number, min: 0 }.
PriceValidator(v) == v >= 0
\* The validation save() runs before it writes: the validators of the
\* paths of the copy, those it loaded as well as those it modified.
validate(doc) == StockValidator(doc.stock) /\ PriceValidator(doc.price)

\* createOrder line 30 and decreaseStock line 241: stock < quantity, a
\* comparison of numbers whatever the notation of the quantity.
InsufficientStock(doc, quantity) == doc.stock < quantity

\* The tag part of the product's pre('save') hook, on the copy being saved:
\* the tag the copy carries when the hook returns ("null" is no tag).
TagHook(doc) ==
    IF doc.stock = 0 THEN "RUPTURE"
    ELSE IF doc.stock <= doc.minStock /\ doc.tag # "PROMOTION" THEN "null"
    ELSE doc.tag

\* save() writes tag only when the hook changed it on the copy.
SetTag(stored, loaded, tag) == IF tag # loaded THEN tag ELSE stored

\* The quantity of an item as the request carries it.
Sent(item) == [number |-> item.quantity, string |-> item.string]
\* The operator += of JavaScript on a Number path of a document: the sum of
\* two numbers, or the concatenation when the right side is a string, cast
\* back to a Number by the schema (NaN when the cast fails).
PlusAssign(a, b) ==
    IF b.string # <<>> THEN ToNumber(NumberToString(a) \o b.string)
    ELSE a + b.number

\* product.decreaseStock(quantity): the check, the two assignments and
\* save(), which validates the document and writes stock and sales as
\* absolute values.  `stored` is the document in the store, `doc` the copy
\* the caller read earlier, `quantity` the value as the request sent it.
\* The Error of the check is answered 500 by errorHandler; a sales that is
\* no Number or a stock below 0 makes save() reject before it writes
\* (ValidationError, answered 400); a save of a document that is gone is
\* answered 500.
decreaseStock(stored, doc, quantity) ==
    IF InsufficientStock(doc, quantity.number)
    THEN [ok |-> FALSE, error |-> "server_error", product |-> stored]
    ELSE IF \/ PlusAssign(doc.sales, quantity) = NaN
            \/ ~validate([doc EXCEPT !.stock = @ - quantity.number])
    THEN [ok |-> FALSE, error |-> "validation_error", product |-> stored]
    ELSE IF ~stored.exists
    THEN [ok |-> FALSE, error |-> "server_error", product |-> stored]
    ELSE [ok |-> TRUE, error |-> "",
          product |-> [stored EXCEPT
                          !.stock = doc.stock - quantity.number,
                          !.sales = PlusAssign(doc.sales, quantity),
                          !.tag = SetTag(@, doc.tag,
                                         TagHook([doc EXCEPT !.stock = @ - quantity.number]))]]

\* A restore that credits one unit whatever the quantity.
restoreStockOne(stored, doc, quantity) ==
    IF ~validate([doc EXCEPT !.stock = @ + 1])
    THEN [ok |-> FALSE, error |-> "validation_error", product |-> stored]
    ELSE [ok |-> TRUE, error |-> "", product |-> [stored EXCEPT !.stock = doc.stock + 1]]

\* cancelOrder lines 189-190: product.stock += item.quantity; product.save().
\* The quantity is the Number of the stored line item.  Only stock is
\* modified, so only stock is written, and tag when the hook changed it.
\* A stock that is still below 0 makes save() reject before it writes
\* (ValidationError, answered 400).
restoreStock(stored, doc, quantity) ==
    IF ~validate([doc EXCEPT !.stock = @ + quantity])
    THEN [ok |-> FALSE, error |-> "validation_error", product |-> stored]
    ELSE [ok |-> TRUE, error |-> "",
          product |-> [stored EXCEPT
                          !.stock = doc.stock + quantity,
                          !.tag = SetTag(@, doc.tag,
                                         TagHook([doc EXCEPT !.stock = @ + quantity]))]]

\* product.incrementViews(): this.views += 1 and save(), which validates
\* the copy, runs the hook and writes views, and tag when the hook changed
\* it.  A copy whose stock is below 0 makes save() reject before it writes
\* (ValidationError, answered 400).
incrementViews(stored, doc) ==
    IF ~validate(doc)
    THEN [ok |-> FALSE, error |-> "validation_error", product |-> stored]
    ELSE [ok |-> TRUE, error |-> "",
          product |-> [stored EXCEPT !.views = doc.views + 1,
                                     !.tag = SetTag(@, doc.tag, TagHook(doc))]]

\* ---- binary64 arithmetic, on sequences of binary digits, most significant
\* ---- first
\* The binary digits of a natural number below 2^31 (<<>> for 0).
NatBits(n) ==
    LET len == CHOOSE l \in 0..31 : (l = 0 \/ n >= 2^(l - 1)) /\ (l = 31 \/ n < 2^l)
    IN  [i \in 1..len |-> (n \div 2^(len - i)) % 2]
\* The number whose binary digits are b.
RECURSIVE BitsNat(_)
BitsNat(b) ==
    IF Len(b) = 0 THEN 0
    ELSE IF Len(b) = 1 THEN b[1]
    ELSE LET h == Len(b) \div 2
         IN  BitsNat(SubSeq(b, 1, h)) * 2^(Len(b) - h) + BitsNat(SubSeq(b, h + 1, Len(b)))
\* What is left of the fraction r / den after its first n binary digits.
RECURSIVE FractionRest(_, _, _)
FractionRest(r, den, n) ==
    IF n <= 16 THEN (r * 2^n) % den ELSE FractionRest((r * 2^16) % den, den, n - 16)
\* The first n binary digits of the fraction r / den, r < den < 2^14.
FractionBits(r, den, n) ==
    [i \in 1..n |-> (2 * FractionRest(r, den, i - 1)) \div den]
\* b + 1.
Increment(b) ==
    IF \A i \in 1..Len(b) : b[i] = 1 THEN <<1>> \o [i \in 1..Len(b) |-> 0]
    ELSE LET z == CHOOSE i \in 1..Len(b) : b[i] = 0 /\ \A j \in (i + 1)..Len(b) : b[j] = 1
         IN  [i \in 1..Len(b) |-> IF i < z THEN b[i] ELSE IF i = z THEN 1 ELSE 0]
\* b * c + carry, for small c and carry.
RECURSIVE Times(_, _, _)
Times(b, c, carry) ==
    IF Len(b) = 0 THEN NatBits(carry)
    ELSE IF Len(b) = 1 THEN NatBits(b[1] * c + carry)
    ELSE LET h == Len(b) \div 2
             low == Times(SubSeq(b, h + 1, Len(b)), c, carry)
             over == Len(low) - (Len(b) - h)
         IN  IF over <= 0
             THEN Times(SubSeq(b, 1, h), c, 0) \o [i \in 1..(-over) |-> 0] \o low
             ELSE Times(SubSeq(b, 1, h), c, BitsNat(SubSeq(low, 1, over)))
                      \o SubSeq(low, over + 1, Len(low))
\* A binary64 number, mantissa * 2^(-scale) with a mantissa of 53 digits,
\* rounded to nearest, ties to even: `guard` is the first digit dropped,
\* `sticky` says that a later one is not zero.
Binary64(digits, scale, guard, sticky) ==
    LET up == guard = 1 /\ (sticky \/ digits[Len(digits)] = 1)
        m == IF up THEN Increment(digits) ELSE digits
    IN  IF Len(m) > 53 THEN [mantissa |-> SubSeq(m, 1, 53), scale |-> scale - 1]
        ELSE [mantissa |-> m, scale |-> scale]
\* The double nearest to num / den, num > 0: the Number a decimal of a JSON
\* body parses to.
Quotient64(num, den) ==
    LET whole == NatBits(num \div den)
        r == num % den
        skip == IF whole = <<>>
                THEN CHOOSE z \in 0..14 : /\ r * 2^(z + 1) >= den
                                          /\ \A y \in 0..(z - 1) : r * 2^(y + 1) < den
                ELSE 0
        n == skip + 53 - Len(whole)
        frac == FractionBits(r, den, n + 1)
    IN  Binary64(SubSeq(whole \o frac, skip + 1, skip + 53), n, frac[n + 1],
                 FractionRest(r, den, n + 1) # 0)
\* x * c in binary64, for an integer c >= 1.
Times64(x, c) ==
    LET p == Times(x.mantissa, c, 0)
        drop == Len(p) - 53
    IN  IF drop = 0 THEN x
        ELSE Binary64(SubSeq(p, 1, 53), x.scale - drop, p[54],
                      \E j \in 55..Len(p) : p[j] = 1)
\* Math.round: the integer nearest to x, the half going up.
MathRound(x) ==
    LET whole == IF x.scale < 53 THEN SubSeq(x.mantissa, 1, 53 - x.scale) ELSE <<>>
        half == IF x.scale \in 1..53 THEN x.mantissa[53 - x.scale + 1] ELSE 0
    IN  BitsNat(whole) + half
\* The digits written on len digits at least, and their last k digits.
Pad(digits, len) == [i \in 1..(len - Len(digits)) |-> 0] \o digits
LastBits(digits, k) == SubSeq(digits, Len(digits) - k + 1, Len(digits))
\* m + n + carry, and m - n - borrow for m >= n, on binary digits, 28
\* digits at a time.
RECURSIVE AddBits(_, _, _)
AddBits(m, n, carry) ==
    LET len == IF Len(m) > Len(n) THEN Len(m) ELSE Len(n)
        low == BitsNat(LastBits(Pad(m, len), 28)) + BitsNat(LastBits(Pad(n, len), 28)) + carry
    IN  IF len <= 28 THEN Pad(NatBits(BitsNat(m) + BitsNat(n) + carry), len)
        ELSE AddBits(SubSeq(Pad(m, len), 1, len - 28), SubSeq(Pad(n, len), 1, len - 28),
                     low \div 2^28)
                 \o Pad(NatBits(low % 2^28), 28)
RECURSIVE SubtractBits(_, _, _)
SubtractBits(m, n, borrow) ==
    LET len == Len(m)
        low == 2^28 + BitsNat(LastBits(m, 28)) - BitsNat(LastBits(Pad(n, len), 28)) - borrow
    IN  IF len <= 28 THEN Pad(NatBits(BitsNat(m) - BitsNat(n) - borrow), len)
        ELSE SubtractBits(SubSeq(m, 1, len - 28), SubSeq(Pad(n, len), 1, len - 28),
                          IF low < 2^28 THEN 1 ELSE 0)
                 \o Pad(NatBits(low % 2^28), 28)
\* The binary64 number nearest to digits * 2^(-scale), digits not all zero.
Nearest64(digits, scale) ==
    LET lead == CHOOSE i \in 1..Len(digits) : digits[i] = 1 /\ \A j \in 1..(i - 1) : digits[j] = 0
        d == SubSeq(digits, lead, Len(digits))
        drop == Len(d) - 53
    IN  IF drop <= 0 THEN [mantissa |-> d \o [i \in 1..(-drop) |-> 0], scale |-> scale - drop]
        ELSE Binary64(SubSeq(d, 1, 53), scale - drop, d[54], \E j \in 55..Len(d) : d[j] = 1)

\* ---- a Number of JavaScript that is not an integer of the model: 0, or a
\* ---- positive binary64 number (high * 2^27 + low) * 2^exponent, `high`
\* ---- the first 26 digits of the mantissa and `low` the last 27
Zero == [exponent |-> 0, high |-> 0, low |-> 0]
Pack(x) ==
    [exponent |-> -x.scale, high |-> BitsNat(SubSeq(x.mantissa, 1, 26)),
     low |-> BitsNat(SubSeq(x.mantissa, 27, 53))]
Unpack(n) ==
    [mantissa |-> NatBits(n.high) \o Pad(NatBits(n.low), 27), scale |-> -n.exponent]
\* a < b.
Less(a, b) ==
    IF a = Zero \/ b = Zero THEN a = Zero /\ b # Zero
    ELSE \/ a.exponent < b.exponent
         \/ a.exponent = b.exponent /\ a.high < b.high
         \/ a.exponent = b.exponent /\ a.high = b.high /\ a.low < b.low
\* num / den, the quotient of two integers, num >= 0.
Divide(num, den) == IF num = 0 THEN Zero ELSE Pack(Quotient64(num, den))
\* a * c, c an integer >= 0.
Multiply(a, c) == IF a = Zero \/ c = 0 THEN Zero ELSE Pack(Times64(Unpack(a), c))
\* a + b.
Add(a, b) ==
    IF a = Zero THEN b
    ELSE IF b = Zero THEN a
    ELSE LET x == Unpack(IF Less(a, b) THEN b ELSE a)
             y == Unpack(IF Less(a, b) THEN a ELSE b)
             shift == y.scale - x.scale
         IN  Pack(Nearest64(AddBits(x.mantissa \o [i \in 1..shift |-> 0], y.mantissa, 0),
                            y.scale))
\* a - b, a >= b.
Subtract(a, b) ==
    IF b = Zero THEN a
    ELSE IF a = b THEN Zero
    ELSE LET x == Unpack(a)
             y == Unpack(b)
             shift == y.scale - x.scale
         IN  Pack(Nearest64(SubtractBits(x.mantissa \o [i \in 1..shift |-> 0], y.mantissa, 0),
                            y.scale))

\* The price getter, v => Math.round(v * 100) / 100, on a price written in
\* thousandths (v is the Number the decimal parses to): the product v * 100
\* is a binary64 product, so that a half in the third decimal goes up or
\* down with the error of the product (0.145 gives 0.14, 0.155 gives 0.16).
RoundedPrice(v) ==
    IF v = 0 THEN Zero ELSE Divide(MathRound(Times64(Quotient64(v, 1000), 100)), 100)
\* The prices a product of these behaviours carries, and the getter on them.
Prices == {0, InitialPrice} \cup {InitialPrice + HalfPrice * k : k \in 1..MaxPrice}
              \cup {HalfPrice * k : k \in 1..MaxPrice}
RoundedPrices == [v \in Prices |-> RoundedPrice(v)]
PriceGetter(v) == IF v \in Prices THEN RoundedPrices[v] ELSE RoundedPrice(v)

\* The products and the sums of these behaviours, computed once.
Quantities == 1..(IF MaxQuantity > MaxString THEN MaxQuantity ELSE MaxString)
Subtotals == [price \in {RoundedPrices[v] : v \in Prices}, quantity \in Quantities |->
                 Multiply(price, quantity)]
RECURSIVE SubtotalsOf(_)
SubtotalsOf(n) ==
    IF n = 0 THEN {Zero}
    ELSE SubtotalsOf(n - 1)
             \cup {Add(a, Subtotals[pq]) : a \in SubtotalsOf(n - 1), pq \in DOMAIN Subtotals}
Sums == [a \in SubtotalsOf(MaxItems - 1), b \in SubtotalsOf(1) |-> Add(a, b)]
\* The operators * and + of createOrder lines 38-39.
itemSubtotal(price, quantity) ==
    IF <<price, quantity>> \in DOMAIN Subtotals THEN Subtotals[price, quantity]
    ELSE Multiply(price, quantity)
AddSubtotal(a, b) == IF <<a, b>> \in DOMAIN Sums THEN Sums[a, b] ELSE Add(a, b)

\* A line item whose subtotal is the price alone.
LineItemUnit(item, doc) ==
    [product |-> item.product, price |-> PriceGetter(doc.price),
     quantity |-> item.quantity, subtotal |-> PriceGetter(doc.price)]

\* createOrder lines 38-48: the line item pushed to orderItems, with the
\* price read through the getter and the subtotal price * quantity, a
\* product of binary64 numbers; the Order schema casts the quantity to a
\* Number.
LineItem(item, doc) ==
    [product |-> item.product, price |-> PriceGetter(doc.price),
     quantity |-> item.quantity, subtotal |-> itemSubtotal(PriceGetter(doc.price), item.quantity)]

\* createOrder lines 59-65: the pricing passed to Order.create.
Pricing(subtotal) ==
    [subtotal |-> subtotal, shippingCost |-> Zero, tax |-> Zero, discount |-> Zero,
     total |-> subtotal]

\* new Date() on the server's day `day`, day 1 being 30 January 2026: the
\* date of the Gregorian calendar that many days after 1 January 1970
\* (getMonth() counts from 0).
ServerDate(day) ==
    LET z == (day - 1) + 20483 + 719468
        era == z \div 146097
        doe == z - era * 146097
        yoe == (doe - doe \div 1460 + doe \div 36524 - doe \div 146096) \div 365
        doy == doe - (365 * yoe + yoe \div 4 - yoe \div 100)
        mp == (5 * doy + 2) \div 153
        m == IF mp < 10 THEN mp + 3 ELSE mp - 9
    IN  [fullYear |-> yoe + era * 400 + (IF m <= 2 THEN 1 ELSE 0),
         month |-> m - 1,
         date |-> doy - (153 * mp + 2) \div 5 + 1]

\* String.prototype.padStart(targetLength, padString), one-character pad.
RECURSIVE PadStart(_, _, _)
PadStart(s, targetLength, c) ==
    IF Len(s) >= targetLength THEN s ELSE PadStart(<<c>> \o s, targetLength, c)
\* String.prototype.slice(-2).
SliceLast2(s) == IF Len(s) <= 2 THEN s ELSE SubSeq(s, Len(s) - 1, Len(s))

\* A count of all orders, whatever their day.
CountAllOrders(store, day) == Len(store)

\* countDocuments({createdAt: {$gte: 00:00:00.000, $lt: 23:59:59.999}}) of
\* the day: an order created in the last millisecond is not counted.
CountOrdersOfDay(store, day) ==
    Cardinality({o \in 1..Len(store) :
                    store[o].createdAt.day = day /\ ~store[o].createdAt.lastMs})

\* Order.js line 171: EB + YY + MM + DD + (count + 1) padded to 4 digits.
OrderNumber(date, count) ==
    <<"E", "B">>
        \o SliceLast2(NumberToString(date.fullYear))
        \o PadStart(NumberToString(date.month + 1), 2, "0")
        \o PadStart(NumberToString(date.date), 2, "0")
        \o PadStart(NumberToString(count + 1), 4, "0")

\* An index that is not unique.
NoUniqueIndex(store, number) == FALSE

\* The unique index on orderNumber.
DuplicateKey(store, number) ==
    \E o \in 1..Len(store) : store[o].orderNumber = number

\* No date.
NoTime == [day |-> 0, lastMs |-> FALSE]

\* The document Order.create inserts: status takes its default, and the
\* second pre('save') hook pushes a history entry only when the document is
\* not new, so a new order's statusHistory is the empty default.
NewOrder(number, at, orderItems, subtotal) ==
    [orderNumber |-> number,
     createdAt |-> at,
     items |-> orderItems,
     pricing |-> Pricing(subtotal),
     status |-> "pending",
     statusHistory |-> <<>>,
     isPaid |-> FALSE,
     paidAt |-> NoTime,
     isDelivered |-> FALSE,
     deliveredAt |-> NoTime]

\* A predicate that forgets the terminal statuses.
canBeCancelledAnyStatus(status) == status \in {"pending", "confirmed", "delivered", "cancelled"}

\* A predicate that lets every order not yet delivered be cancelled.
canBeCancelledUndelivered(status) ==
    status \in {"pending", "confirmed", "processing", "shipped"}

\* The virtual canBeCancelled.
canBeCancelled(status) == status \in {"pending", "confirmed"}

\* ------------------------------------------------------------------ tasks
\* No document: what findById gives for an id that names no stored product.
NoDoc == [exists |-> FALSE, stock |-> 0, sales |-> 0, price |-> 0, minStock |-> 0,
          tag |-> "null", views |-> 0]
Idle ==
    [kind |-> "none", pc |-> "idle", items |-> <<>>, i |-> 0, doc |-> NoDoc,
     orderItems |-> <<>>, subtotal |-> Zero,
     order |-> 0, status |-> "", newStatus |-> "", number |-> <<>>, at |-> NoTime,
     alone |-> FALSE, pre |-> ZeroStock, preSales |-> ZeroStock, case |-> ""]
\* No body.
NoBody == [none |-> 0]
IdleAdmin == [pc |-> "idle", kind |-> "none", product |-> 0, body |-> NoBody]

\* The steps of the clock so far, and whether one more event (an admin
\* operation, a step of the clock, a request that writes a quantity as a
\* string) may happen.
Elapsed == (now.day - 1) + (IF now.lastMs THEN 1 ELSE 0)
Quiet == edits + Elapsed + strings < MaxEvents

InFlight(t) == t.pc # "idle"
NoneInFlight == admin.pc = "idle" /\ \A q \in Tasks : ~InFlight(reqs[q])
\* A request is accepted into the lowest free task slot.
Accept(r) ==
    /\ served < MaxRequests
    /\ ~InFlight(reqs[r])
    /\ \A q \in Tasks : q < r => InFlight(reqs[q])

\* Another request or an admin operation starts while these requests run.
Disturbed(rs) ==
    [q \in Tasks |->
        IF InFlight(rs[q])
        THEN [rs[q] EXCEPT !.alone = FALSE, !.pre = ZeroStock, !.preSales = ZeroStock,
                           !.case = ""]
        ELSE rs[q]]

\* The response to the request of task t.
Response(t, result) ==
    [kind |-> t.kind, result |-> result, order |-> t.order, i |-> t.i,
     status |-> t.status, newStatus |-> t.newStatus,
     alone |-> t.alone, pre |-> t.pre, preSales |-> t.preSales, case |-> t.case]
NoResponse == Response(Idle, "")
\* The response to an admin operation on product p.
AdminResponse(kind, p, result) == Response([Idle EXCEPT !.kind = kind, !.i = p], result)

\* The next state of a task: it goes on as t, or it has answered.
Running(t) == [task |-> t, response |-> NoResponse]
Answered(t, result) == [task |-> Idle, response |-> Response(t, result)]

\* User schema defaults: loginAttempts 0, no lockUntil, no lastLogin, active.
NewUser == [loginAttempts |-> 0, lockUntil |-> 0, lastLogin |-> 0, isActive |-> TRUE]
\* No update.
NoUpdate == [op |-> "none", lockUntil |-> 0, lastLogin |-> 0]
IdleLogin == [kind |-> "none", pc |-> "idle", correct |-> FALSE, user |-> NewUser,
              update |-> NoUpdate]

Init ==
    /\ products = [p \in Products |->
                      IF p <= NumProducts
                      THEN [exists |-> TRUE, stock |-> InitialStock, sales |-> 0,
                            price |-> InitialPrice, minStock |-> InitialMinStock,
                            tag |-> "null", views |-> 0]
                      ELSE NoDoc]
    /\ orders = <<>>
    /\ now = [day |-> 1, lastMs |-> FALSE]
    /\ reqs = [r \in Tasks |-> Idle]
    /\ served = 0
    /\ edits = 0
    /\ strings = 0
    /\ admin = IdleAdmin
    /\ nextId = NumProducts + 1
    /\ stock0 = [p \in Products |-> products[p].stock]
    /\ sold = [p \in Products |-> 0]
    /\ touched = [p \in Products |-> FALSE]
    /\ credits = <<>>
    /\ cancelCalls = <<>>
    /\ last = NoResponse
    /\ account = NewUser
    /\ clock = 1
    /\ logins = [r \in Tasks |-> IdleLogin]
    /\ failures = 0
    /\ loginLast = ""

\* ------------------------------------------------------------ createOrder
\* Lines 24-48 for item t.i: Product.findById, the two early returns, the
\* line item and the running subtotal, a binary64 sum.  The copy read here
\* is the one decreaseStock works on.
CreateOrderFind(t) ==
    LET item == t.items[t.i] IN
    IF ~products[item.product].exists
    THEN Answered(t, "product_not_found")
    ELSE IF InsufficientStock(products[item.product], item.quantity)
    THEN Answered(t, "insufficient_stock")
    ELSE LET lineItem == LineItem(item, products[item.product])
         IN  Running([t EXCEPT !.pc = "decreaseStock", !.doc = products[item.product],
                               !.orderItems = Append(@, lineItem),
                               !.subtotal = AddSubtotal(@, lineItem.subtotal)])

\* The quantity a request asks of product p, over all its items.
RECURSIVE Requested(_, _)
Requested(items, p) ==
    IF items = <<>> THEN 0
    ELSE (IF Head(items).product = p THEN Head(items).quantity ELSE 0)
         + Requested(Tail(items), p)

\* The quantities of a request that are written as strings.
Strings(items) == Cardinality({k \in 1..Len(items) : items[k].string # <<>>})

\* What the properties need to know about the createOrder call that
\* starts: no other request runs, every product it names exists and holds
\* at least the quantity the call asks of it ("sufficient").
CreateCase(items) ==
    IF /\ NoneInFlight
       /\ \A k \in 1..Len(items) : products[items[k].product].exists
       /\ \A p \in Products : Requested(items, p) <= products[p].stock
    THEN "sufficient"
    ELSE ""

\* POST /api/orders: the request passes createOrderValidation and the
\* handler reaches its first findById.  A request that writes a quantity
\* as a string is one of the MaxEvents events of a behaviour.
CreateOrderStart(r, items) ==
    LET next == CreateOrderFind([Idle EXCEPT !.kind = "createOrder", !.items = items,
                                             !.i = 1, !.alone = NoneInFlight,
                                             !.case = CreateCase(items),
                                             !.pre = IF NoneInFlight THEN StockOf ELSE ZeroStock,
                                             !.preSales = IF NoneInFlight THEN SalesOf
                                                          ELSE ZeroStock])
    IN  /\ Accept(r)
        /\ Strings(items) > 0 => Quiet
        /\ served' = served + 1
        /\ strings' = strings + (IF Strings(items) > 0 THEN 1 ELSE 0)
        /\ reqs' = [Disturbed(reqs) EXCEPT ![r] = next.task]
        /\ last' = next.response
        /\ UNCHANGED <<products, orders, now, edits, stock0, sold, touched, credits, cancelCalls>>
        /\ UNCHANGED adminVars
        /\ UNCHANGED authVars

\* Line 51: await product.decreaseStock(item.quantity), then the next
\* iteration's findById; or, when the loop ends, line 55, Order.create, up
\* to the count query of the first pre('save') hook: the document gets its
\* createdAt and the hook reads new Date() (Order.js line 158) before the
\* count is awaited.
\* orderNumber is required and the document is built without one; it is
\* assigned by the pre('save') hook only.  Mongoose's own validation is a
\* pre('save') hook as well, and is documented to run before the schema's
\* hooks, which rejects the document (ValidationError, answered 400 by
\* errorHandler).  The hook's author and the test guide expect the number to
\* be generated first.  Both outcomes are kept.
CreateOrderDecrease(r) ==
    LET t == reqs[r]
        item == t.items[t.i]
        res == decreaseStock(products[item.product], t.doc, Sent(item))
    IN  /\ t.pc = "decreaseStock"
        /\ products' = [products EXCEPT ![item.product] = res.product]
        /\ sold' = IF res.ok THEN [sold EXCEPT ![item.product] = @ + item.quantity] ELSE sold
        /\ \E valid \in BOOLEAN :
              LET next == IF ~res.ok THEN Answered(t, res.error)
                          ELSE IF t.i < Len(t.items)
                          THEN Running([t EXCEPT !.pc = "findProduct", !.i = t.i + 1,
                                                 !.doc = NoDoc])
                          ELSE IF ~valid THEN Answered(t, "validation_error")
                          ELSE Running([t EXCEPT !.pc = "countDocuments", !.doc = NoDoc,
                                                 !.at = now])
              IN  /\ reqs' = [reqs EXCEPT ![r] = next.task]
                  /\ last' = next.response
        /\ UNCHANGED <<orders, now, served, edits, strings, stock0, touched, credits, cancelCalls>>
        /\ UNCHANGED adminVars
        /\ UNCHANGED authVars

\* Lines 24-36 of a later iteration.
CreateOrderNext(r) ==
    LET next == CreateOrderFind(reqs[r])
    IN  /\ reqs[r].pc = "findProduct"
        /\ reqs' = [reqs EXCEPT ![r] = next.task]
        /\ last' = next.response
        /\ UNCHANGED <<products, orders, now, served, edits, strings, stock0, sold, touched,
                       credits, cancelCalls>>
        /\ UNCHANGED adminVars
        /\ UNCHANGED authVars

\* Order.js lines 164-171: the count of the orders of the day the hook read
\* before the query, and the number made of that day and the count.
CreateOrderCount(r) ==
    LET t == reqs[r] IN
    /\ t.pc = "countDocuments"
    /\ reqs' = [reqs EXCEPT ![r] =
                   [t EXCEPT !.pc = "orderInsert",
                             !.number = OrderNumber(ServerDate(t.at.day),
                                                    CountOrdersOfDay(orders, t.at.day))]]
    /\ last' = NoResponse
    /\ UNCHANGED <<products, orders, now, served, edits, strings, stock0, sold, touched,
                   credits, cancelCalls>>
    /\ UNCHANGED adminVars
    /\ UNCHANGED authVars

\* The insert: rejected by the unique index (code 11000, answered 400 by
\* errorHandler) or stored; then line 70, order.populate, is awaited.
CreateOrderInsert(r) ==
    LET t == reqs[r] IN
    /\ t.pc = "orderInsert"
    /\ IF DuplicateKey(orders, t.number)
       THEN /\ reqs' = [reqs EXCEPT ![r] = Idle]
            /\ last' = Response(t, "duplicate_key")
            /\ UNCHANGED <<orders, credits, cancelCalls>>
       ELSE /\ orders' = Append(orders, NewOrder(t.number, t.at, t.orderItems, t.subtotal))
            /\ credits' = Append(credits, [k \in 1..Len(t.items) |-> 0])
            /\ cancelCalls' = Append(cancelCalls, 0)
            /\ reqs' = [reqs EXCEPT ![r] = [t EXCEPT !.pc = "populate",
                                                     !.order = Len(orders) + 1]]
            /\ last' = NoResponse
    /\ UNCHANGED <<products, now, served, edits, strings, stock0, sold, touched>>
    /\ UNCHANGED adminVars
    /\ UNCHANGED authVars

\* Lines 70-72: populate returns and the 201 response is sent.
CreateOrderPopulate(r) ==
    LET t == reqs[r] IN
    /\ t.pc = "populate"
    /\ reqs' = [reqs EXCEPT ![r] = Idle]
    /\ last' = Response(t, "created")
    /\ UNCHANGED <<products, orders, now, served, edits, strings, stock0, sold, touched,
                   credits, cancelCalls>>
    /\ UNCHANGED adminVars
    /\ UNCHANGED authVars

\* ------------------------------------------------------------ cancelOrder
\* Lines 165-183: Order.findById and the three early returns.  `authorized`
\* is the outcome of the owner-or-admin test of line 172.
CancelOrderFind(t, authorized) ==
    IF t.order > Len(orders) THEN Answered(t, "order_not_found")
    ELSE LET order == [t EXCEPT !.status = orders[t.order].status] IN
         IF ~authorized THEN Answered(order, "forbidden")
         ELSE IF ~canBeCancelled(order.status) THEN Answered(order, "not_cancellable")
         ELSE Running([order EXCEPT !.pc = "restoreFind", !.items = orders[t.order].items,
                                    !.i = 1])

\* What the properties need to know about the call that starts: it follows
\* at once the createOrder call that persisted the order ("roundtrip"), or
\* it is the second call on an order that the first call cancelled ("second").
CancelCase(o, authorized) ==
    IF o > Len(orders) \/ ~authorized \/ ~NoneInFlight THEN ""
    ELSE IF last.kind = "createOrder" /\ last.result = "created" /\ last.order = o /\ last.alone
    THEN "roundtrip"
    ELSE IF cancelCalls[o] = 1 /\ orders[o].status = "cancelled"
            /\ \A k \in 1..Len(credits[o]) : credits[o][k] = 1
    THEN "second"
    ELSE ""

\* PUT /api/orders/:id/cancel.
CancelOrderStart(r, o, authorized) ==
    LET case == CancelCase(o, authorized)
        next == CancelOrderFind([Idle EXCEPT !.kind = "cancelOrder", !.order = o,
                                            !.alone = NoneInFlight, !.case = case,
                                            !.pre = IF case = "roundtrip" THEN last.pre
                                                    ELSE IF NoneInFlight THEN StockOf
                                                    ELSE ZeroStock],
                                authorized)
    IN  /\ Accept(r)
        /\ served' = served + 1
        /\ cancelCalls' = IF o <= Len(orders) THEN [cancelCalls EXCEPT ![o] = @ + 1]
                          ELSE cancelCalls
        /\ reqs' = [Disturbed(reqs) EXCEPT ![r] = next.task]
        /\ last' = next.response
        /\ UNCHANGED <<products, orders, now, edits, strings, stock0, sold, touched, credits>>
        /\ UNCHANGED adminVars
        /\ UNCHANGED authVars

\* The loop of lines 186-192 goes to its next item, or to order.cancel.
CancelNextItem(t) ==
    IF t.i < Len(t.items)
    THEN [t EXCEPT !.pc = "restoreFind", !.i = t.i + 1, !.doc = NoDoc]
    ELSE [t EXCEPT !.pc = "orderCancel", !.doc = NoDoc]

\* Lines 187-188: Product.findById(item.product) and if (product): the
\* item of a product that is gone is passed over.
CancelRestoreFind(r) ==
    LET t == reqs[r]
        product == products[t.items[t.i].product]
    IN  /\ t.pc = "restoreFind"
        /\ reqs' = [reqs EXCEPT ![r] =
                       IF product.exists
                       THEN [t EXCEPT !.pc = "restoreSave", !.doc = product]
                       ELSE CancelNextItem(t)]
        /\ last' = NoResponse
        /\ UNCHANGED <<products, orders, now, served, edits, strings, stock0, sold, touched,
                       credits, cancelCalls>>
        /\ UNCHANGED adminVars
        /\ UNCHANGED authVars

\* Lines 189-190, then the next item or order.cancel.  A save() that
\* rejects ends the call there (answered 400); save() of a product deleted
\* since line 187 throws (DocumentNotFoundError, answered 500).
CancelRestoreSave(r) ==
    LET t == reqs[r]
        item == t.items[t.i]
        res == restoreStock(products[item.product], t.doc, item.quantity)
    IN  /\ t.pc = "restoreSave"
        /\ IF ~res.ok
           THEN /\ reqs' = [reqs EXCEPT ![r] = Idle]
                /\ last' = Response(t, res.error)
                /\ UNCHANGED <<products, touched, credits>>
           ELSE IF products[item.product].exists
           THEN /\ products' = [products EXCEPT ![item.product] = res.product]
                /\ touched' = [touched EXCEPT ![item.product] = TRUE]
                /\ credits' = [credits EXCEPT ![t.order][t.i] = @ + 1]
                /\ reqs' = [reqs EXCEPT ![r] = CancelNextItem(t)]
                /\ last' = NoResponse
           ELSE /\ reqs' = [reqs EXCEPT ![r] = Idle]
                /\ last' = Response(t, "server_error")
                /\ UNCHANGED <<products, touched, credits>>
        /\ UNCHANGED <<orders, now, served, edits, strings, stock0, sold, cancelCalls>>
        /\ UNCHANGED adminVars
        /\ UNCHANGED authVars

\* A history entry.
Entry(status, note, updatedBy) == [status |-> status, note |-> note, updatedBy |-> updatedBy]
\* The second pre('save') hook of Order.js on a stored document: an entry is
\* pushed when the status differs from the one that was loaded.
StatusHook(loaded, status) ==
    IF status # loaded THEN <<Entry(status, "", "")>> ELSE <<>>

\* A save that writes the array of the private copy over the stored one.
pushSet(history, entries) == entries

\* MongooseArray.push followed by save(): the new elements are appended to
\* the stored array ($push), whatever the copy held.
push(history, entries) == history \o entries

\* save() writes status only when the assignment changed it on the copy.
SetStatus(stored, loaded, status) == IF status # loaded THEN status ELSE stored

\* order.cancel(reason): the assignments and save().
cancel(stored, loaded) ==
    [stored EXCEPT !.status = SetStatus(@, loaded, "cancelled"),
                   !.statusHistory = push(@, StatusHook(loaded, "cancelled"))]

\* Line 195: order.cancel(reason), which sets the status and saves.
CancelOrderSave(r) ==
    LET t == reqs[r] IN
    /\ t.pc = "orderCancel"
    /\ orders' = [orders EXCEPT ![t.order] = cancel(@, t.status)]
    /\ reqs' = [reqs EXCEPT ![r] = Idle]
    /\ last' = Response(t, "cancelled")
    /\ UNCHANGED <<products, now, served, edits, strings, stock0, sold, touched, credits, cancelCalls>>
    /\ UNCHANGED adminVars
    /\ UNCHANGED authVars

\* ------------------------------------------------------ updateOrderStatus
\* A list that lets one more value through.
validStatusesWide ==
    {"pending", "confirmed", "processing", "shipped", "delivered", "cancelled", "refunded"}

\* orderController.js line 262.
validStatuses == {"pending", "confirmed", "processing", "shipped", "delivered", "cancelled"}
\* What a request may send as status: the six values and one that is none.
StatusInputs == validStatuses \cup {"refunded"}

\* PUT /api/orders/:id/status (admin), lines 256-266.
UpdateOrderStatusStart(r, o, status) ==
    LET t == [Idle EXCEPT !.kind = "updateOrderStatus", !.order = o, !.alone = NoneInFlight,
                          !.newStatus = status]
        next == IF o > Len(orders) THEN Answered(t, "order_not_found")
                ELSE IF status \notin validStatuses
                THEN Answered([t EXCEPT !.status = orders[o].status], "invalid_status")
                ELSE Running([t EXCEPT !.pc = "updateStatus", !.status = orders[o].status])
    IN  /\ Accept(r)
        /\ served' = served + 1
        /\ reqs' = [Disturbed(reqs) EXCEPT ![r] = next.task]
        /\ last' = next.response
        /\ UNCHANGED <<products, orders, now, edits, strings, stock0, sold, touched, credits, cancelCalls>>
        /\ UNCHANGED adminVars
        /\ UNCHANGED authVars

\* order.updateStatus(status, note, userId): the assignment, the push and
\* save(), whose hook pushes again when the status changed.
updateStatus(stored, loaded, status, note, userId) ==
    [stored EXCEPT !.status = SetStatus(@, loaded, status),
                   !.statusHistory = push(@, <<Entry(status, note, userId)>>
                                             \o StatusHook(loaded, status))]

\* Line 268: order.updateStatus(status, note, req.user.id).
UpdateOrderStatusSave(r) ==
    LET t == reqs[r] IN
        /\ t.pc = "updateStatus"
        /\ orders' = [orders EXCEPT ![t.order] =
                        updateStatus(@, t.status, t.newStatus, "note", "admin")]
        /\ reqs' = [reqs EXCEPT ![r] = Idle]
        /\ last' = Response(t, "updated")
        /\ UNCHANGED <<products, now, served, edits, strings, stock0, sold, touched, credits, cancelCalls>>
        /\ UNCHANGED adminVars
        /\ UNCHANGED authVars

\* ------------------------------------------------------------- markAsPaid
\* A payment that confirms the order whatever its status.
markAsPaidConfirm(stored, loaded, at) ==
    [stored EXCEPT !.isPaid = TRUE, !.paidAt = at,
                   !.status = SetStatus(@, loaded, "confirmed"),
                   !.statusHistory = push(@, StatusHook(loaded, "confirmed"))]

\* order.markAsPaid(paymentInfo): isPaid, paidAt, the advance of a pending
\* order to confirmed, and save().  `at` is the new Date() of line 197.
markAsPaid(stored, loaded, at) ==
    LET status == IF loaded = "pending" THEN "confirmed" ELSE loaded
    IN  [stored EXCEPT !.isPaid = TRUE, !.paidAt = at,
                       !.status = SetStatus(@, loaded, status),
                       !.statusHistory = push(@, StatusHook(loaded, status))]

\* A check that lets a paid order through.
AlreadyPaidNever(order) == FALSE

\* orderController.js line 214: if (order.isPaid).
AlreadyPaid(order) == order.isPaid

\* PUT /api/orders/:id/pay (admin), lines 208-218: findById, the two early
\* returns, and the call of order.markAsPaid, which makes its assignments,
\* the date of line 197 among them, and calls save().
MarkAsPaidStart(r, o) ==
    LET t == [Idle EXCEPT !.kind = "markAsPaid", !.order = o, !.alone = NoneInFlight]
        next == IF o > Len(orders) THEN Answered(t, "order_not_found")
                ELSE IF AlreadyPaid(orders[o])
                THEN Answered([t EXCEPT !.status = orders[o].status], "already_paid")
                ELSE Running([t EXCEPT !.pc = "markAsPaid", !.status = orders[o].status,
                                       !.at = now])
    IN  /\ Accept(r)
        /\ served' = served + 1
        /\ reqs' = [Disturbed(reqs) EXCEPT ![r] = next.task]
        /\ last' = next.response
        /\ UNCHANGED <<products, orders, now, edits, strings, stock0, sold, touched, credits, cancelCalls>>
        /\ UNCHANGED adminVars
        /\ UNCHANGED authVars

\* Line 218: the save of order.markAsPaid reaches the store.
MarkAsPaidSave(r) ==
    LET t == reqs[r] IN
    /\ t.pc = "markAsPaid"
    /\ orders' = [orders EXCEPT ![t.order] = markAsPaid(@, t.status, t.at)]
    /\ reqs' = [reqs EXCEPT ![r] = Idle]
    /\ last' = Response(t, "paid")
    /\ UNCHANGED <<products, now, served, edits, strings, stock0, sold, touched, credits, cancelCalls>>
    /\ UNCHANGED adminVars
    /\ UNCHANGED authVars

\* -------------------------------------------------------- markAsDelivered
\* order.markAsDelivered(): isDelivered, deliveredAt, status and save().
\* `at` is the new Date() of line 216.
markAsDelivered(stored, loaded, at) ==
    [stored EXCEPT !.isDelivered = TRUE, !.deliveredAt = at,
                   !.status = SetStatus(@, loaded, "delivered"),
                   !.statusHistory = push(@, StatusHook(loaded, "delivered"))]

\* PUT /api/orders/:id/deliver (admin), lines 231-241: findById, the two
\* early returns, and the call of order.markAsDelivered up to its save().
MarkAsDeliveredStart(r, o) ==
    LET t == [Idle EXCEPT !.kind = "markAsDelivered", !.order = o, !.alone = NoneInFlight]
        next == IF o > Len(orders) THEN Answered(t, "order_not_found")
                ELSE IF orders[o].isDelivered
                THEN Answered([t EXCEPT !.status = orders[o].status], "already_delivered")
                ELSE Running([t EXCEPT !.pc = "markAsDelivered", !.status = orders[o].status,
                                       !.at = now])
    IN  /\ Accept(r)
        /\ served' = served + 1
        /\ reqs' = [Disturbed(reqs) EXCEPT ![r] = next.task]
        /\ last' = next.response
        /\ UNCHANGED <<products, orders, now, edits, strings, stock0, sold, touched, credits, cancelCalls>>
        /\ UNCHANGED adminVars
        /\ UNCHANGED authVars

\* Line 241: the save of order.markAsDelivered reaches the store.
MarkAsDeliveredSave(r) ==
    LET t == reqs[r] IN
    /\ t.pc = "markAsDelivered"
    /\ orders' = [orders EXCEPT ![t.order] = markAsDelivered(@, t.status, t.at)]
    /\ reqs' = [reqs EXCEPT ![r] = Idle]
    /\ last' = Response(t, "delivered")
    /\ UNCHANGED <<products, now, served, edits, strings, stock0, sold, touched, credits, cancelCalls>>
    /\ UNCHANGED adminVars
    /\ UNCHANGED authVars

\* --------------------------------------------------------- getProductById
\* GET /api/products/:id, productController.js lines 88-93: findById and
\* the 404.
GetProductByIdStart(r, p) ==
    LET t == [Idle EXCEPT !.kind = "getProductById", !.alone = NoneInFlight]
        next == IF ~products[p].exists THEN Answered(t, "product_not_found")
                ELSE Running([t EXCEPT !.pc = "incrementViews", !.i = p, !.doc = products[p]])
    IN  /\ Accept(r)
        /\ products[p].views < MaxViews
        /\ served' = served + 1
        /\ reqs' = [Disturbed(reqs) EXCEPT ![r] = next.task]
        /\ last' = next.response
        /\ UNCHANGED <<products, orders, now, edits, strings, stock0, sold, touched, credits, cancelCalls>>
        /\ UNCHANGED adminVars
        /\ UNCHANGED authVars

\* Line 96: await product.incrementViews(), then the response; a save()
\* that rejects is answered 400, and save() of a product deleted since
\* line 89 throws (answered 500).
GetProductByIdSave(r) ==
    LET t == reqs[r]
        res == incrementViews(products[t.i], t.doc)
    IN
    /\ t.pc = "incrementViews"
    /\ IF ~res.ok
       THEN /\ last' = Response(t, res.error)
            /\ UNCHANGED products
       ELSE IF products[t.i].exists
       THEN /\ products' = [products EXCEPT ![t.i] = res.product]
            /\ last' = Response(t, "product")
       ELSE /\ last' = Response(t, "server_error")
            /\ UNCHANGED products
    /\ reqs' = [reqs EXCEPT ![r] = Idle]
    /\ UNCHANGED <<orders, now, served, edits, strings, stock0, sold, touched, credits, cancelCalls>>
    /\ UNCHANGED adminVars
    /\ UNCHANGED authVars

\* ------------------------------------------------- the admin's operations
\* The tags of the Product schema's enum ("null" is no tag).
Tags == {"POPULAIRE", "NOUVEAU", "PROMOTION", "RUPTURE", "null"}
Has(body, field) == field \in DOMAIN body
\* req.body is the parsed JSON as the client sent it (index.js line 58;
\* the sanitizer of line 50 runs before the body is parsed).  A key that
\* begins with $ is an update operator to findByIdAndUpdate; the other
\* keys are paths, which the update sets.
Operators == {"$set", "$inc"}
Paths(body) == [f \in DOMAIN body \ Operators |-> body[f]]
NoPaths == [f \in {} |-> 0]
Operand(body, operator) == IF Has(body, operator) THEN body[operator] ELSE NoPaths
\* The paths the update sets, and the paths it increments.
SetOf(body) == Operand(body, "$set") @@ Paths(body)
IncOf(body) == Operand(body, "$inc")
Writes(body, field) == Has(SetOf(body), field) \/ Has(IncOf(body), field)

\* updateProductValidation: body('price').optional().isFloat({ min: 0 }),
\* body('stock').optional().isInt({ min: 0 }).
updateProductValidation(body) ==
    /\ Has(body, "price") => body.price >= 0
    /\ Has(body, "stock") => body.stock >= 0

\* createProductValidation: body('price').isFloat({ min: 0 }),
\* body('stock').isInt({ min: 0 }), both required.
createProductValidation(body) ==
    /\ Has(body, "price") /\ body.price >= 0
    /\ Has(body, "stock") /\ body.stock >= 0

\* The validators of the Product schema on the values given for its paths
\* (sales and views have none).
Validators(paths) ==
    /\ Has(paths, "price") => PriceValidator(paths.price)
    /\ Has(paths, "stock") => StockValidator(paths.stock)
    /\ Has(paths, "minStock") => paths.minStock >= 0
    /\ Has(paths, "tag") => paths.tag \in Tags
\* runValidators: the update validators run on the values the update
\* sets.  An increment is applied by the store and no validator sees the
\* value it leaves.
runValidators(body) == Validators(SetOf(body))

\* The stored document after the update: a path the update sets holds the
\* value given, a path it increments holds the stored value plus the amount.
findByIdAndUpdate(stored, body) ==
    [f \in DOMAIN stored |->
        IF Has(SetOf(body), f) THEN SetOf(body)[f]
        ELSE IF Has(IncOf(body), f) THEN stored[f] + IncOf(body)[f]
        ELSE stored[f]]

\* Product.create(req.body): the paths of the body over the schema's
\* defaults (minStock 5, no tag, views 0, sales 0), validated, and the
\* pre('save') hook.  A key that is no path of the schema is left out.
DefaultMinStock == 5
create(body) ==
    LET doc == findByIdAndUpdate([exists |-> TRUE, stock |-> 0, sales |-> 0, price |-> 0,
                                  minStock |-> DefaultMinStock, tag |-> "null", views |-> 0],
                                 Paths(body))
    IN  [doc EXCEPT !.tag = TagHook(doc)]

\* The bodies an admin sends to PUT /api/products/:id: a stock, a price in
\* thousandths, or another path of the schema, and a stock or a price
\* under an update operator.  The stocks and the amounts are integers.
ProductBodies ==
    {[stock |-> v] : v \in (-1)..MaxStock}
        \cup {[price |-> -HalfPrice]} \cup {[price |-> HalfPrice * k] : k \in 1..MaxPrice}
        \cup {[tag |-> "SOLDE"],
              [tag |-> "PROMOTION", minStock |-> 0, sales |-> 0, views |-> 0]}
        \cup {"$set" :> [stock |-> v] : v \in (-1)..MaxStock}
        \cup {"$inc" :> [stock |-> v] : v \in {-MaxIncrement, -1, 1}}
        \cup {"$inc" :> [price |-> HalfPrice * k] : k \in 1..MaxPrice}
\* The bodies an admin sends to POST /api/products.
NewProductBodies ==
    {[price |-> InitialPrice, stock |-> v] : v \in (-1)..MaxStock}

\* PUT /api/products/:id (admin), lines 122-126: the route's validation,
\* findById and the 404.
UpdateProductStart(p, body) ==
    /\ served < MaxRequests /\ edits < MaxEdits /\ Quiet
    /\ admin.pc = "idle"
    /\ served' = served + 1
    /\ edits' = edits + 1
    /\ UNCHANGED strings
    /\ IF ~updateProductValidation(body)
       THEN admin' = IdleAdmin /\ last' = AdminResponse("updateProduct", p, "validation_error")
       ELSE IF ~products[p].exists
       THEN admin' = IdleAdmin /\ last' = AdminResponse("updateProduct", p, "product_not_found")
       ELSE /\ admin' = [pc |-> "findByIdAndUpdate", kind |-> "updateProduct",
                         product |-> p, body |-> body]
            /\ last' = NoResponse
    /\ reqs' = Disturbed(reqs)
    /\ UNCHANGED <<products, orders, now, nextId, stock0, sold, touched, credits, cancelCalls>>
    /\ UNCHANGED authVars

\* An update of the price that rewrites the line items of the orders too.
UpdateProductReprice ==
    LET p == admin.product
        body == admin.body
    IN  /\ admin.pc = "findByIdAndUpdate"
        /\ Writes(body, "price") /\ runValidators(body) /\ products[p].exists
        /\ products' = [products EXCEPT ![p] = findByIdAndUpdate(@, body)]
        /\ orders' = [o \in DOMAIN orders |->
                        [orders[o] EXCEPT !.items =
                            [k \in DOMAIN @ |->
                                IF @[k].product = p
                                THEN [@[k] EXCEPT !.price = PriceGetter(products'[p].price)]
                                ELSE @[k]]]]
        /\ admin' = IdleAdmin
        /\ last' = AdminResponse("updateProduct", p, "updated")
        /\ UNCHANGED <<now, reqs, served, edits, strings, nextId, stock0, sold, touched,
                       credits, cancelCalls>>
        /\ UNCHANGED authVars

\* Lines 128-138: findByIdAndUpdate with runValidators, one atomic update
\* of the stored document by the whole body, without the save hooks and
\* without the validation of save().  A
\* product deleted since line 122 gives null, and line 138 throws
\* (answered 500).
UpdateProductSave ==
    LET p == admin.product
        body == admin.body
    IN  /\ admin.pc = "findByIdAndUpdate"
        /\ IF ~runValidators(body)
           THEN /\ last' = AdminResponse("updateProduct", p, "validation_error")
                /\ UNCHANGED <<products, touched>>
           ELSE IF ~products[p].exists
           THEN /\ last' = AdminResponse("updateProduct", p, "server_error")
                /\ UNCHANGED <<products, touched>>
           ELSE /\ products' = [products EXCEPT ![p] = findByIdAndUpdate(@, body)]
                /\ touched' = [touched EXCEPT ![p] = @ \/ Writes(body, "stock")]
                /\ last' = AdminResponse("updateProduct", p, "updated")
        /\ admin' = IdleAdmin
        /\ UNCHANGED <<orders, now, reqs, served, edits, strings, nextId, stock0, sold,
                       credits, cancelCalls>>
        /\ UNCHANGED authVars

\* DELETE /api/products/:id (admin), lines 148-152: findById and the 404.
DeleteProductStart(p) ==
    /\ served < MaxRequests /\ edits < MaxEdits /\ Quiet
    /\ admin.pc = "idle"
    /\ served' = served + 1
    /\ edits' = edits + 1
    /\ UNCHANGED strings
    /\ IF ~products[p].exists
       THEN admin' = IdleAdmin /\ last' = AdminResponse("deleteProduct", p, "product_not_found")
       ELSE /\ admin' = [pc |-> "deleteOne", kind |-> "deleteProduct", product |-> p,
                         body |-> NoBody]
            /\ last' = NoResponse
    /\ reqs' = Disturbed(reqs)
    /\ UNCHANGED <<products, orders, now, nextId, stock0, sold, touched, credits, cancelCalls>>
    /\ UNCHANGED authVars

\* Line 154: await product.deleteOne(), then the response.
DeleteProductSave ==
    /\ admin.pc = "deleteOne"
    /\ products' = [products EXCEPT ![admin.product] = NoDoc]
    /\ touched' = [touched EXCEPT ![admin.product] = TRUE]
    /\ admin' = IdleAdmin
    /\ last' = AdminResponse("deleteProduct", admin.product, "deleted")
    /\ UNCHANGED <<orders, now, reqs, served, edits, strings, nextId, stock0, sold,
                   credits, cancelCalls>>
    /\ UNCHANGED authVars

\* POST /api/products (admin), lines 108-114: the route's validation and
\* Product.create, which stores the product under a new id.
CreateProduct(body) ==
    /\ served < MaxRequests /\ edits < MaxEdits /\ Quiet
    /\ admin.pc = "idle"
    /\ served' = served + 1
    /\ nextId \in Products
    /\ edits' = edits + 1
    /\ UNCHANGED strings
    /\ IF createProductValidation(body) /\ Validators(Paths(body))
       THEN /\ products' = [products EXCEPT ![nextId] = create(body)]
            /\ touched' = [touched EXCEPT ![nextId] = TRUE]
            /\ nextId' = nextId + 1
            /\ last' = AdminResponse("createProduct", nextId, "created")
       ELSE /\ last' = AdminResponse("createProduct", nextId, "validation_error")
            /\ UNCHANGED <<products, touched, nextId>>
    /\ reqs' = Disturbed(reqs)
    /\ UNCHANGED <<orders, now, admin, stock0, sold, credits, cancelCalls>>
    /\ UNCHANGED authVars

\* ------------------------------------------------------------- the clock
\* The clock reaches the last millisecond of the day, 23:59:59.999.
LastMillisecond ==
    /\ ~now.lastMs /\ Quiet
    /\ now' = [now EXCEPT !.lastMs = TRUE]
    /\ last' = NoResponse
    /\ UNCHANGED <<products, orders, reqs, served, edits, strings, stock0, sold, touched,
                   credits, cancelCalls>>
    /\ UNCHANGED adminVars
    /\ UNCHANGED authVars

\* Midnight passes on the server.
NextDay ==
    /\ now.day < MaxDay /\ (now.lastMs \/ Quiet)
    /\ now' = [day |-> now.day + 1, lastMs |-> FALSE]
    /\ last' = NoResponse
    /\ UNCHANGED <<products, orders, reqs, served, edits, strings, stock0, sold, touched,
                   credits, cancelCalls>>
    /\ UNCHANGED adminVars
    /\ UNCHANGED authVars

Next ==
    \/ \E r \in Tasks, items \in ItemLists : CreateOrderStart(r, items)
    \/ \E r \in Tasks : CreateOrderNext(r)
    \/ \E r \in Tasks : CreateOrderDecrease(r)
    \/ \E r \in Tasks : CreateOrderCount(r)
    \/ \E r \in Tasks : CreateOrderInsert(r)
    \/ \E r \in Tasks : CreateOrderPopulate(r)
    \/ \E r \in Tasks, o \in 1..(Len(orders) + 1), authorized \in BOOLEAN :
          CancelOrderStart(r, o, authorized)
    \/ \E r \in Tasks : CancelRestoreFind(r)
    \/ \E r \in Tasks : CancelRestoreSave(r)
    \/ \E r \in Tasks : CancelOrderSave(r)
    \/ \E r \in Tasks, o \in 1..(Len(orders) + 1), status \in StatusInputs :
          UpdateOrderStatusStart(r, o, status)
    \/ \E r \in Tasks : UpdateOrderStatusSave(r)
    \/ \E r \in Tasks, o \in 1..(Len(orders) + 1) : MarkAsPaidStart(r, o)
    \/ \E r \in Tasks : MarkAsPaidSave(r)
    \/ \E r \in Tasks, o \in 1..(Len(orders) + 1) : MarkAsDeliveredStart(r, o)
    \/ \E r \in Tasks : MarkAsDeliveredSave(r)
    \/ \E r \in Tasks, p \in Products : GetProductByIdStart(r, p)
    \/ \E r \in Tasks : GetProductByIdSave(r)
    \/ \E p \in Products, body \in ProductBodies : UpdateProductStart(p, body)
    \/ UpdateProductSave
    \/ \E p \in Products : DeleteProductStart(p)
    \/ DeleteProductSave
    \/ \E body \in NewProductBodies : CreateProduct(body)
    \/ LastMillisecond
    \/ NextDay

Spec == Init /\ [][Next]_vars

\* ------------------------------------------------------------------ login
\* The requests on the account read and write the User Store only, and the
\* handlers above never touch it: the two are explored apart.
\* User.js line 131: parseInt(process.env.MAX_LOGIN_ATTEMPTS) || 5.
maxAttempts == 5
\* User.js line 135: the lock lasts 2 * 60 * 60 * 1000 ms.
LockHours == 2
\* The virtual isLocked: !!(this.lockUntil && this.lockUntil > Date.now()).
isLocked(user, time) == user.lockUntil # 0 /\ user.lockUntil > time

\* The update updateOne applies to the stored document ($set, $unset, $inc).
updateOne(stored, update) ==
    IF update.op = "restart" THEN [stored EXCEPT !.loginAttempts = 1, !.lockUntil = 0]
    ELSE IF update.op = "inc"
    THEN [stored EXCEPT !.loginAttempts = @ + 1,
                        !.lockUntil = IF update.lockUntil # 0 THEN update.lockUntil ELSE @]
    ELSE IF update.op = "reset"
    THEN [stored EXCEPT !.loginAttempts = 0, !.lastLogin = update.lastLogin, !.lockUntil = 0]
    ELSE IF update.op = "deactivate" THEN [stored EXCEPT !.isActive = FALSE]
    ELSE stored

\* user.incLoginAttempts(): the update computed from the copy `user` at the
\* time of the call.
incLoginAttempts(user, time) ==
    IF user.lockUntil # 0 /\ user.lockUntil < time
    THEN [op |-> "restart", lockUntil |-> 0, lastLogin |-> 0]
    ELSE [op |-> "inc",
          lockUntil |-> IF user.loginAttempts + 1 >= maxAttempts /\ ~isLocked(user, time)
                        THEN time + LockHours
                        ELSE 0,
          lastLogin |-> 0]

\* user.resetLoginAttempts().
resetLoginAttempts(user, time) == [op |-> "reset", lockUntil |-> 0, lastLogin |-> time]

\* POST /api/auth/login, lines 387-402: User.findOne, the 401 of an unknown
\* email, the 403 of a locked account; then matchPassword is awaited.
\* `known` says that the email names the account, `correct` that the
\* password is the account's.
\* The requests are those that loginValidation (an email, a password that
\* is not empty) and authLimiter (5 failures per client and quarter of an
\* hour) let through, from any number of clients.
LoginStart(r, known, correct) ==
    /\ logins[r].pc = "idle"
    /\ IF ~known
       THEN loginLast' = "user_not_found" /\ UNCHANGED logins
       ELSE IF isLocked(account, clock)
       THEN loginLast' = "account_locked" /\ UNCHANGED logins
       ELSE /\ logins' = [logins EXCEPT ![r] = [IdleLogin EXCEPT !.kind = "login",
                                                                !.pc = "matchPassword",
                                                                !.correct = correct,
                                                                !.user = account]]
            /\ loginLast' = ""
    /\ UNCHANGED <<account, clock, failures>>
    /\ UNCHANGED storeVars

\* Lines 404-416: the password did not match, incLoginAttempts is called;
\* or it matched: the 403 of an account that is not active, or
\* resetLoginAttempts is called.  Each call computes its update and awaits
\* updateOne.
LoginMatch(r) ==
    LET t == logins[r] IN
    /\ t.kind = "login" /\ t.pc = "matchPassword"
    /\ IF ~t.correct
       THEN /\ logins' = [logins EXCEPT ![r] = [t EXCEPT !.pc = "updateOne",
                                                         !.update = incLoginAttempts(t.user, clock)]]
            /\ loginLast' = ""
       ELSE IF ~t.user.isActive
       THEN /\ logins' = [logins EXCEPT ![r] = IdleLogin]
            /\ loginLast' = "account_disabled"
       ELSE /\ logins' = [logins EXCEPT ![r] = [t EXCEPT !.pc = "updateOne",
                                                         !.update = resetLoginAttempts(t.user, clock)]]
            /\ loginLast' = ""
    /\ UNCHANGED <<account, clock, failures>>
    /\ UNCHANGED storeVars

\* The update reaches the store, and lines 407 or 418-428 answer.
LoginUpdate(r) ==
    LET t == logins[r] IN
    /\ t.kind = "login" /\ t.pc = "updateOne"
    /\ account' = updateOne(account, t.update)
    /\ IF ~t.correct
       THEN /\ failures' = IF account.lockUntil # 0 THEN 1 ELSE failures + 1
            /\ loginLast' = "invalid_credentials"
       ELSE /\ failures' = 0
            /\ loginLast' = "success"
    /\ logins' = [logins EXCEPT ![r] = IdleLogin]
    /\ UNCHANGED clock
    /\ UNCHANGED storeVars

\* The passwords a request carries: none, one that is not the account's,
\* the account's.
Passwords == {"", "wrong", "right"}

\* DELETE /api/auth/account behind protect (auth.js lines 22-42): findById
\* of the token's user, the 403 of an account that is not active and the
\* 403 of a locked one; then the handler (lines 535-542): the 400 of a body
\* without a password, or its own findById is awaited.
DeleteAccountStart(r, password) ==
    /\ logins[r].pc = "idle"
    /\ IF ~account.isActive
       THEN loginLast' = "account_disabled" /\ UNCHANGED logins
       ELSE IF isLocked(account, clock)
       THEN loginLast' = "account_locked" /\ UNCHANGED logins
       ELSE IF password = ""
       THEN loginLast' = "password_required" /\ UNCHANGED logins
       ELSE /\ logins' = [logins EXCEPT ![r] = [IdleLogin EXCEPT !.kind = "deleteAccount",
                                                                !.pc = "findById",
                                                                !.correct = password = "right"]]
            /\ loginLast' = ""
    /\ UNCHANGED <<account, clock, failures>>
    /\ UNCHANGED storeVars

\* Lines 542-549: the account is read, and matchPassword is awaited.
DeleteAccountFind(r) ==
    LET t == logins[r] IN
    /\ t.kind = "deleteAccount" /\ t.pc = "findById"
    /\ logins' = [logins EXCEPT ![r] = [t EXCEPT !.pc = "matchPassword", !.user = account]]
    /\ loginLast' = ""
    /\ UNCHANGED <<account, clock, failures>>
    /\ UNCHANGED storeVars

\* Lines 551-557: the 401 of a wrong password, or user.isActive = false and
\* save(), which writes the one path that was modified.
DeleteAccountMatch(r) ==
    LET t == logins[r] IN
    /\ t.kind = "deleteAccount" /\ t.pc = "matchPassword"
    /\ IF ~t.correct
       THEN /\ logins' = [logins EXCEPT ![r] = IdleLogin]
            /\ loginLast' = "wrong_password"
       ELSE /\ logins' = [logins EXCEPT ![r] =
                             [t EXCEPT !.pc = "save",
                                       !.update = [NoUpdate EXCEPT !.op = "deactivate"]]]
            /\ loginLast' = ""
    /\ UNCHANGED <<account, clock, failures>>
    /\ UNCHANGED storeVars

\* Line 557: the save reaches the store, and the handler answers.
DeleteAccountSave(r) ==
    LET t == logins[r] IN
    /\ t.kind = "deleteAccount" /\ t.pc = "save"
    /\ account' = updateOne(account, t.update)
    /\ logins' = [logins EXCEPT ![r] = IdleLogin]
    /\ loginLast' = "account_deleted"
    /\ UNCHANGED <<clock, failures>>
    /\ UNCHANGED storeVars

\* An hour passes.
Tick ==
    /\ clock < MaxClock
    /\ clock' = clock + 1
    /\ loginLast' = ""
    /\ UNCHANGED <<account, logins, failures>>
    /\ UNCHANGED storeVars

LoginNext ==
    \/ \E r \in Tasks, known \in BOOLEAN, correct \in BOOLEAN : LoginStart(r, known, correct)
    \/ \E r \in Tasks : LoginMatch(r)
    \/ \E r \in Tasks : LoginUpdate(r)
    \/ \E r \in Tasks, password \in Passwords : DeleteAccountStart(r, password)
    \/ \E r \in Tasks : DeleteAccountFind(r)
    \/ \E r \in Tasks : DeleteAccountMatch(r)
    \/ \E r \in Tasks : DeleteAccountSave(r)
    \/ Tick

LoginSpec == Init /\ [][LoginNext]_vars

\* ------------------------------------------------------------- properties
OrderIds == 1..Len(orders)
CreateFailedOnItem ==
    /\ last.kind = "createOrder"
    /\ last.result \in {"product_not_found", "insufficient_stock"}

\* C1: as long as no restore and no admin update has written a product's
\* stock, the quantities taken from it by the decreaseStock calls that
\* succeeded sum to at most its stock at start.
NoOversell == \A p \in Products : ~touched[p] => sold[p] <= stock0[p]

\* C2: when a createOrder call that ran alone answers "product not found" or
\* "insufficient stock", every product's stock is what it was before the call.
CompensationOnFailure == (CreateFailedOnItem /\ last.alone) => StockOf = last.pre

\* C3: every product's stock is an integer >= 0 in every reachable state.
StockNonNegative == \A p \in Products : products[p].stock \in Nat

\* C4: the second cancelOrder call on an order that the first call cancelled
\* is answered "not cancellable", leaves the stock as it was, and every
\* line item has been restored once in total.
SecondCancelRefused ==
    last.case = "second" =>
        /\ last.result = "not_cancellable"
        /\ StockOf = last.pre
        /\ \A k \in 1..Len(credits[last.order]) : credits[last.order][k] = 1
SecondCancelWitness ==
    /\ last.case = "second"
    /\ last.result = "not_cancellable"
    /\ Len(orders[last.order].items) = MaxItems

\* C5: no line item of any order is restored more than once.
AtMostOnceRestore ==
    \A o \in OrderIds : \A k \in 1..Len(credits[o]) : credits[o][k] <= 1

\* C6: when a createOrder call that ran alone persists an order and the next
\* request cancels that order, running alone, every product's stock is back
\* to what it was before the createOrder call.
RoundTrip ==
    (last.case = "roundtrip" /\ last.result = "cancelled") => StockOf = last.pre
\* The round trip of a list of MaxItems items of one product that mixes
\* the notations, a string then a number: the request wrote a string, and
\* sales is the sum 2 that only a number makes of the 1 the string left.
RoundTripWitness ==
    /\ last.case = "roundtrip"
    /\ last.result = "cancelled"
    /\ served = 2 /\ strings = 1
    /\ Len(orders[last.order].items) = MaxItems
    /\ \E p \in Products : products[p].sales = 2 /\ last.pre[p] = InitialStock

\* C7: no two persisted orders have the same orderNumber.
UniqueOrderNumbers ==
    \A a, b \in OrderIds : a # b => orders[a].orderNumber # orders[b].orderNumber
\* Two creations raced on the same count and the index rejected the second.
UniqueOrderNumbersWitness ==
    /\ last.result = "duplicate_key"
    /\ Len(orders) >= 1

\* The order numbers of the days of ServerDate, written out.
ExpectedDay(day) ==
    CASE day = 1 -> <<"2", "6", "0", "1", "3", "0">>
      [] day = 2 -> <<"2", "6", "0", "1", "3", "1">>
      [] day = 3 -> <<"2", "6", "0", "2", "0", "1">>
      [] OTHER -> <<"2", "6", "0", "2", "0", "2">>
ExpectedNumber(day, n) ==
    <<"E", "B">> \o ExpectedDay(day) \o <<"0", "0", "0", DigitChar(n)>>
\* C8: the order persisted by a createOrder call that ran alone carries
\* EB, the YYMMDD of its day and k + 1 on four digits, k being the number of
\* the other orders of that day.
OrderNumberSequence ==
    (last.kind = "createOrder" /\ last.result = "created" /\ last.alone) =>
        LET new == orders[last.order]
            k == Cardinality({o \in OrderIds :
                                o # last.order /\ orders[o].createdAt.day = new.createdAt.day})
        IN  new.orderNumber = ExpectedNumber(new.createdAt.day, k + 1)
\* The second order of the second day, after one order on the first day.
OrderNumberSequenceWitness ==
    /\ last.kind = "createOrder" /\ last.result = "created" /\ last.alone
    /\ last.order = 3
    /\ orders[1].createdAt.day = 1 /\ orders[2].createdAt.day = 2 /\ orders[3].createdAt.day = 2

\* C9: a creation whose insert the unique index rejects goes back to the
\* generation of a number, or fails with the identifier-exhausted error.
RetryOnCollision ==
    [][\A r \in Tasks :
          (reqs[r].pc = "orderInsert" /\ reqs'[r] # reqs[r]
             /\ DuplicateKey(orders, reqs[r].number))
          => (reqs'[r].pc = "countDocuments" \/ last'.result = "identifier_exhausted")]_vars

\* C10: the order a createOrder call has just persisted is pending and its
\* statusHistory is one entry, of status pending.
InitialHistory ==
    (last.kind = "createOrder" /\ last.result = "created") =>
        /\ orders[last.order].status = "pending"
        /\ Len(orders[last.order].statusHistory) = 1
        /\ orders[last.order].statusHistory[1].status = "pending"

\* C11: a createOrder call that runs alone, names only products that exist
\* and asks of each no more than its stock, persists one new order, pending
\* and numbered, and leaves each product's stock lower and its sales
\* counter higher by the quantity ordered.
CreateSucceeds ==
    (last.kind = "createOrder" /\ last.case = "sufficient") =>
        /\ last.result = "created"
        /\ last.order = Len(orders)
        /\ orders[last.order].status = "pending"
        /\ orders[last.order].orderNumber # <<>>
        /\ \A p \in Products :
              /\ products[p].stock = last.pre[p] - Requested(orders[last.order].items, p)
              /\ products[p].sales = last.preSales[p] + Requested(orders[last.order].items, p)

\* The transitions of the order lifecycle.
PermittedTransitions ==
    {<<"pending", "confirmed">>, <<"confirmed", "processing">>,
     <<"processing", "shipped">>, <<"shipped", "delivered">>,
     <<"pending", "cancelled">>, <<"confirmed", "cancelled">>}
\* C12: every change of a persisted order's status is one of
\* pending->confirmed, confirmed->processing, processing->shipped,
\* shipped->delivered, pending->cancelled, confirmed->cancelled.
PermittedTransitionsOnly ==
    [][\A o \in OrderIds :
          orders'[o].status # orders[o].status
          => <<orders[o].status, orders'[o].status>> \in PermittedTransitions]_vars

\* C13: a cancelOrder call on an order that is processing, shipped,
\* delivered or cancelled goes no further than its checks; the
\* not-cancellable answer carries the order's status, and the call leaves
\* the orders and the products as they were.
CancelRefused ==
    [][/\ \A r \in Tasks :
            (reqs[r].kind = "none" /\ reqs'[r].kind = "cancelOrder")
            => orders[reqs'[r].order].status \in {"pending", "confirmed"}
       /\ (served' = served + 1 /\ last'.kind = "cancelOrder" /\ last'.order \in OrderIds
             /\ last'.result # "forbidden")
          => /\ last'.result = "not_cancellable"
             /\ last'.status = orders[last'.order].status
             /\ last'.status \in {"processing", "shipped", "delivered", "cancelled"}
             /\ orders' = orders
             /\ products' = products]_vars
\* A shipped order whose cancellation was refused, its stock still taken.
CancelRefusedWitness ==
    /\ last.kind = "cancelOrder"
    /\ last.result = "not_cancellable"
    /\ last.status = "shipped"
    /\ orders[last.order].status = "shipped"
    /\ \E p \in Products : products[p].stock < stock0[p]

\* C14: the save of a markAsPaid call sets isPaid; when the order was read
\* pending its status becomes confirmed and statusHistory gains exactly one
\* entry, and when it was read in another status the status stays as it is.
MarkAsPaidEffect ==
    [][\A r \in Tasks :
          (reqs[r].pc = "markAsPaid" /\ reqs'[r].pc = "idle")
          => LET before == orders[reqs[r].order]
                 after == orders'[reqs[r].order]
             IN  /\ after.isPaid
                 /\ IF reqs[r].status = "pending"
                    THEN /\ after.status = "confirmed"
                         /\ Len(after.statusHistory) = Len(before.statusHistory) + 1
                         /\ SubSeq(after.statusHistory, 1, Len(before.statusHistory))
                               = before.statusHistory
                    ELSE after.status = before.status]_vars
\* A pending order has just been paid.
MarkAsPaidEffectWitness ==
    /\ last.kind = "markAsPaid"
    /\ last.result = "paid"
    /\ last.status = "pending"
    /\ orders[last.order].isPaid
    /\ orders[last.order].status = "confirmed"

\* C15: the save of every markAsPaid call appends an entry to statusHistory.
PaidAppendsHistory ==
    [][\A r \in Tasks :
          (reqs[r].pc = "markAsPaid" /\ reqs'[r].pc = "idle")
          => Len(orders'[reqs[r].order].statusHistory)
               > Len(orders[reqs[r].order].statusHistory)]_vars

\* C16: a markAsPaid call on an order whose isPaid is true goes no further
\* than its checks, is answered already-paid and leaves the orders as they
\* were.
AlreadyPaidRefused ==
    [][/\ \A r \in Tasks :
            (reqs[r].kind = "none" /\ reqs'[r].kind = "markAsPaid")
            => ~orders[reqs'[r].order].isPaid
       /\ (served' = served + 1 /\ last'.kind = "markAsPaid" /\ last'.order \in OrderIds)
          => /\ last'.result = "already_paid"
             /\ orders[last'.order].isPaid
             /\ orders' = orders]_vars
\* The second payment of an order paid on an earlier day was refused.
AlreadyPaidRefusedWitness ==
    /\ last.kind = "markAsPaid"
    /\ last.result = "already_paid"
    /\ orders[last.order].isPaid
    /\ orders[last.order].paidAt.day < now.day

\* C17: an updateOrderStatus call on a persisted order with a status that
\* is none of the six values goes no further than its checks, is answered
\* invalid-status and leaves the orders as they were.
InvalidStatusRefused ==
    [][/\ \A r \in Tasks :
            (reqs[r].kind = "none" /\ reqs'[r].kind = "updateOrderStatus")
            => reqs'[r].newStatus \in {"pending", "confirmed", "processing", "shipped",
                                       "delivered", "cancelled"}
       /\ (served' = served + 1 /\ last'.kind = "updateOrderStatus"
             /\ last'.order \in OrderIds)
          => /\ last'.result = "invalid_status"
             /\ last'.newStatus \notin {"pending", "confirmed", "processing", "shipped",
                                         "delivered", "cancelled"}
             /\ orders' = orders]_vars
\* An order with a history was asked an unknown status.
InvalidStatusRefusedWitness ==
    /\ last.kind = "updateOrderStatus"
    /\ last.result = "invalid_status"
    /\ last.newStatus = "refunded"
    /\ Len(orders[last.order].statusHistory) > 0

\* C18: the save of an updateOrderStatus call appends exactly one entry to
\* statusHistory, with the new status, the note and the acting user.
OneEntryPerUpdate ==
    [][\A r \in Tasks :
          (reqs[r].pc = "updateStatus" /\ reqs'[r].pc = "idle")
          => orders'[reqs[r].order].statusHistory
               = Append(orders[reqs[r].order].statusHistory,
                        [status |-> reqs[r].newStatus, note |-> "note",
                         updatedBy |-> "admin"])]_vars

\* C19: in every step, the statusHistory of every persisted order is a
\* prefix of its statusHistory after the step.
HistoryAppendOnly ==
    [][\A o \in OrderIds :
          /\ Len(orders'[o].statusHistory) >= Len(orders[o].statusHistory)
          /\ SubSeq(orders'[o].statusHistory, 1, Len(orders[o].statusHistory))
                = orders[o].statusHistory]_vars
\* An order whose history was written by two operations.
HistoryAppendOnlyWitness ==
    \E o \in OrderIds :
        /\ orders[o].status = "cancelled"
        /\ Len(orders[o].statusHistory) = 3
        /\ orders[o].statusHistory[1].updatedBy = "admin"

\* The sum of the subtotals, added from the first to the last as Numbers.
RECURSIVE SumOfSubtotals(_)
SumOfSubtotals(items) ==
    IF items = <<>> THEN Zero
    ELSE AddSubtotal(SumOfSubtotals(SubSeq(items, 1, Len(items) - 1)), items[Len(items)].subtotal)
\* C20: every persisted order's pricing.subtotal is the sum of its line
\* items' subtotals, every line item's subtotal is its price times its
\* quantity, and pricing.total is subtotal + shippingCost + tax - discount,
\* which is the subtotal; the sums and the products are those of the
\* program's Numbers (binary64).
PricingInvariant ==
    \A o \in OrderIds :
        LET order == orders[o] IN
        /\ order.pricing.subtotal = SumOfSubtotals(order.items)
        /\ \A k \in 1..Len(order.items) :
              order.items[k].subtotal = itemSubtotal(order.items[k].price, order.items[k].quantity)
        /\ order.pricing.total =
              Subtract(AddSubtotal(AddSubtotal(order.pricing.subtotal, order.pricing.shippingCost),
                           order.pricing.tax),
                       order.pricing.discount)
        /\ order.pricing.total = order.pricing.subtotal
\* An order of two line items whose price changed between them.
PricingInvariantWitness ==
    \E o \in OrderIds :
        /\ Len(orders[o].items) = MaxItems
        /\ orders[o].items[1].price # orders[o].items[2].price
        /\ orders[o].pricing.total # Zero

\* C21: no step, an admin's update of a product's price among them, changes
\* the line items or the pricing of an order that is already persisted.
PriceSnapshot ==
    [][\A o \in OrderIds :
          /\ orders'[o].items = orders[o].items
          /\ orders'[o].pricing = orders[o].pricing]_vars
\* An order keeps the price of its purchase after the product's price changed.
PriceSnapshotWitness ==
    /\ edits > 0
    /\ \E o \in OrderIds : \E k \in 1..Len(orders[o].items) :
          /\ orders[o].items[k].price # PriceGetter(products[orders[o].items[k].product].price)
          /\ orders[o].items[k].subtotal
                = itemSubtotal(orders[o].items[k].price, orders[o].items[k].quantity)
          /\ orders[o].pricing.total # Zero

\* C22: the stock of a product that stays in the catalog changes only in
\* the reserve step of createOrder and in the restore step of cancelOrder.
StockChokePoint ==
    [][(\E p \in Products : /\ products[p].exists /\ products'[p].exists
                            /\ products'[p].stock # products[p].stock)
       => \E r \in Tasks : /\ reqs[r].pc \in {"decreaseStock", "restoreSave"}
                           /\ reqs'[r].pc # reqs[r].pc]_vars

\* C23: a reserve step that leaves a product's stock at 0 leaves its tag at
\* RUPTURE, and a createOrder call that reads a stock of 0 for an item is
\* answered insufficient-stock and changes no product.
OutOfStock ==
    [][/\ \A r \in Tasks :
            (reqs[r].pc = "decreaseStock" /\ reqs'[r].pc # "decreaseStock"
               /\ last'.result # "server_error"
               /\ products'[reqs[r].items[reqs[r].i].product].stock = 0)
            => products'[reqs[r].items[reqs[r].i].product].tag = "RUPTURE"
       /\ \A r \in Tasks :
            (reqs[r].pc = "findProduct" /\ reqs'[r].pc # "findProduct"
               /\ products[reqs[r].items[reqs[r].i].product].exists
               /\ products[reqs[r].items[reqs[r].i].product].stock = 0)
            => (last'.result = "insufficient_stock" /\ products' = products)
       /\ \A r \in Tasks :
            (reqs[r].pc = "idle" /\ reqs'[r].pc = "decreaseStock")
            => products[reqs'[r].items[1].product].stock > 0]_vars

\* C28: when no request is in flight, after createOrder and cancelOrder
\* calls only (no admin update, no product view), a product whose tag is
\* RUPTURE has stock 0.
TagConsistency ==
    (NoneInFlight /\ edits = 0 /\ \A p \in Products : products[p].views = 0)
    => \A p \in Products : products[p].tag = "RUPTURE" => products[p].stock = 0

\* The quantity of product p held by the orders that are not cancelled.
RECURSIVE LiveQuantity(_, _)
LiveQuantity(store, p) ==
    IF store = <<>> THEN 0
    ELSE (IF Head(store).status # "cancelled" THEN Requested(Head(store).items, p) ELSE 0)
         + LiveQuantity(Tail(store), p)
\* C25: when no request is in flight and no admin update was made, every
\* product's stock is its stock at start less the quantities of its line
\* items in the persisted orders that are not cancelled.
StockConservation ==
    (NoneInFlight /\ edits = 0)
    => \A p \in Products : products[p].stock = stock0[p] - LiveQuantity(orders, p)

\* C26: every line item of every cancelled order has been credited back to
\* its product's stock.
CancelledImpliesRestored ==
    \A o \in OrderIds :
        orders[o].status = "cancelled"
        => \A k \in 1..Len(credits[o]) : credits[o][k] >= 1

\* C27: when a createOrder call that ran alone is answered with the error
\* of a rejected insert (validation or duplicate orderNumber), every
\* product's stock is what it was before the call.
FailureAfterReservation ==
    (/\ last.kind = "createOrder"
     /\ last.result \in {"validation_error", "duplicate_key"}
     /\ last.alone)
    => StockOf = last.pre

\* C29: every persisted order has isDelivered true exactly when its status
\* is delivered.
DeliveredFlag ==
    \A o \in OrderIds : orders[o].isDelivered <=> orders[o].status = "delivered"

\* C30: the save of a markAsPaid or markAsDelivered call leaves a cancelled
\* order cancelled.
CancelledStaysCancelled ==
    [][\A r \in Tasks :
          (/\ reqs[r].pc \in {"markAsPaid", "markAsDelivered"}
           /\ reqs'[r].pc = "idle"
           /\ orders[reqs[r].order].status = "cancelled")
          => orders'[reqs[r].order].status = "cancelled"]_vars

\* C24: when a failed password attempt has just been answered and it is at
\* least the maxAttempts-th in a row, the account is locked.
LockedAfterMaxFailures ==
    (loginLast = "invalid_credentials" /\ failures >= maxAttempts)
    => (account.lockUntil # 0 /\ account.lockUntil > clock)

====
